---------------------------- MODULE Spec2Model ----------------------------
(***************************************************************************)
(* Model of the password generator of oat (src/src/commands/password.rs):  *)
(* password_action, build_character_set and generate_password.             *)
(*                                                                         *)
(* A char is its Unicode code point.  A String is a sequence of chars.     *)
(* An Option<T> is a sequence of length at most one: <<>> is None, <<v>>   *)
(* is Some(v).                                                             *)
(***************************************************************************)
EXTENDS Integers, Sequences, FiniteSets, TLC

VARIABLES
    context,    \* the flags of the command line (the Context `c` of password_action)
    pc,         \* position of the run: "start", "loop", "done", "panicked"
    length,     \* local `length` of password_action (usize)
    count,      \* local `count` of password_action (usize)
    config,     \* Option<PasswordConfig>: <<>> until the struct is constructed
    result,     \* what build_character_set returned: "none", "Ok" or "Err"
    charset,    \* the Vec<char> bound by the Ok(charset) arm
    i,          \* loop variable of `for i in 0..count`
    rng,        \* Option<state> of the thread-local generator behind thread_rng()
    passwords,  \* the Strings generate_password has returned, in call order
    stdout,     \* lines written by println!
    stderr      \* lines written by eprintln! (and the panic message)

vars == <<context, pc, length, count, config, result, charset, i, rng, passwords, stdout, stderr>>

(***************************************************************************)
(* Bounds of the model.                                                    *)
(***************************************************************************)
MaxLength == 2     \* the --length values tried are -1 .. MaxLength, and absent
MaxCount == 2      \* the --count values tried are -1 .. MaxCount, and absent
MaxSeed == 1       \* the generator is seeded with one of 0 .. MaxSeed
MaxHashKey == 2    \* a HashSet is keyed with one of 1 .. MaxHashKey
MaxBuilds == 2     \* build_character_set is applied to one config up to MaxBuilds times

(***************************************************************************)
(* Machine integers.  usize and isize are modelled 16 bits wide (TLC's     *)
(* integers are 32 bits wide): what matters is that a negative isize,      *)
(* cast to usize, exceeds isize::MAX.                                      *)
(***************************************************************************)
UsizeModulus == 2^16
IsizeMax == 2^15 - 1

\* `v as usize` for an isize v
as_usize(v) == v % UsizeModulus

\* Option::unwrap_or
unwrap_or(opt, default) == IF opt = <<>> THEN default ELSE opt[1]

\* The set of elements of a sequence: str.chars() collected into a HashSet.
chars(s) == {s[k] : k \in 1..Len(s)}

(***************************************************************************)
(* The literals of build_character_set.                                    *)
(***************************************************************************)
\* "ABCDEFGHIJKLMNOPQRSTUVWXYZ"
uppercase == [k \in 1..26 |-> 64 + k]
\* "abcdefghijklmnopqrstuvwxyz"
lowercase == [k \in 1..26 |-> 96 + k]
\* "0123456789"
numbers == [k \in 1..10 |-> 47 + k]
\* "!@#$%^&*()_+-=[]{}|;:,.<>?"
default_symbols == <<33, 64, 35, 36, 37, 94, 38, 42, 40, 41, 95, 43, 45, 61,
                     91, 93, 123, 125, 124, 59, 58, 44, 46, 60, 62, 63>>
\* "0Ol1I"
ambiguous_chars == <<48, 79, 108, 49, 73>>

\* char::is_ascii_uppercase, is_ascii_lowercase, is_ascii_digit, is_ascii_alphanumeric
is_ascii_uppercase(c) == c \in 65..90
is_ascii_lowercase(c) == c \in 97..122
is_ascii_digit(c) == c \in 48..57
is_ascii_alphanumeric(c) == is_ascii_uppercase(c) \/ is_ascii_lowercase(c) \/ is_ascii_digit(c)

(***************************************************************************)
(* Iteration order of a HashSet<char>.  The order is that of the buckets,  *)
(* which depends on the set's random hash keys: with key k, bucket s       *)
(* (s = 1 .. 250) is the place of the char (s * k) % 251.                  *)
(***************************************************************************)
HashKeys == 1..MaxHashKey

into_iter(set, key) ==
    SelectSeq([s \in 1..250 |-> (s * key) % 251], LAMBDA c : c \in set)

(***************************************************************************)
(* build_character_set, stage by stage.                                    *)
(***************************************************************************)
\* Fault: the custom symbols are added to the default symbols, not used in their place.
category_pools_custom_added(cfg) ==
    (IF cfg.include_uppercase THEN chars(uppercase) ELSE {})
    \cup (IF cfg.include_lowercase THEN chars(lowercase) ELSE {})
    \cup (IF cfg.include_numbers THEN chars(numbers) ELSE {})
    \cup (IF cfg.include_symbols
          THEN chars(default_symbols) \cup chars(unwrap_or(cfg.custom_symbols, <<>>))
          ELSE {})

\* Fault: the custom symbols are added whether or not the symbol toggle is enabled.
category_pools_custom_always(cfg) ==
    (IF cfg.include_uppercase THEN chars(uppercase) ELSE {})
    \cup (IF cfg.include_lowercase THEN chars(lowercase) ELSE {})
    \cup (IF cfg.include_numbers THEN chars(numbers) ELSE {})
    \cup (IF cfg.include_symbols \/ cfg.custom_symbols # <<>>
          THEN chars(unwrap_or(cfg.custom_symbols, default_symbols))
          ELSE {})

\* Fault: the digits are added whether or not their toggle is enabled.
category_pools_numbers_always(cfg) ==
    (IF cfg.include_uppercase THEN chars(uppercase) ELSE {})
    \cup (IF cfg.include_lowercase THEN chars(lowercase) ELSE {})
    \cup chars(numbers)
    \cup (IF cfg.include_symbols
          THEN chars(unwrap_or(cfg.custom_symbols, default_symbols))
          ELSE {})

\* lines 139-155: the pools of the enabled categories
category_pools(cfg) ==
    (IF cfg.include_uppercase THEN chars(uppercase) ELSE {})
    \cup (IF cfg.include_lowercase THEN chars(lowercase) ELSE {})
    \cup (IF cfg.include_numbers THEN chars(numbers) ELSE {})
    \cup (IF cfg.include_symbols
          THEN chars(unwrap_or(cfg.custom_symbols, default_symbols))
          ELSE {})

\* Fault: a character of include_chars is added only if its category is enabled.
extend_include_enabled_only(set, cfg) ==
    set \cup {c \in cfg.include_chars :
                \/ cfg.include_uppercase /\ is_ascii_uppercase(c)
                \/ cfg.include_lowercase /\ is_ascii_lowercase(c)
                \/ cfg.include_numbers /\ is_ascii_digit(c)
                \/ cfg.include_symbols /\ ~is_ascii_alphanumeric(c)}

\* lines 157-158: charset.extend(config.include_chars.iter())
extend_include(set, cfg) == set \cup cfg.include_chars

\* lines 160-165: remove the ambiguous characters if requested
remove_ambiguous(set, cfg) ==
    IF cfg.no_ambiguous THEN set \ chars(ambiguous_chars) ELSE set

\* Fault: the excluded characters are removed in both cases.
remove_excluded_ignore_case(set, cfg) ==
    set \ (cfg.exclude_chars
           \cup {c + 32 : c \in {e \in cfg.exclude_chars : is_ascii_uppercase(e)}}
           \cup {c - 32 : c \in {e \in cfg.exclude_chars : is_ascii_lowercase(e)}})

\* lines 167-170: remove the excluded characters
remove_excluded(set, cfg) == set \ cfg.exclude_chars

\* Fault: the class tests forget the category toggles.
has_required_ignoring_toggles(cfg, set) ==
    \/ \E c \in set : is_ascii_uppercase(c)
    \/ \E c \in set : is_ascii_lowercase(c)
    \/ \E c \in set : is_ascii_digit(c)
    \/ \E c \in set : ~is_ascii_alphanumeric(c)

\* Fault: the symbol category is satisfied by any surviving character.
has_required_symbols_any(cfg, set) ==
    \/ cfg.include_uppercase /\ \E c \in set : is_ascii_uppercase(c)
    \/ cfg.include_lowercase /\ \E c \in set : is_ascii_lowercase(c)
    \/ cfg.include_numbers /\ \E c \in set : is_ascii_digit(c)
    \/ cfg.include_symbols /\ set # {}

\* lines 174-177
has_required(cfg, set) ==
    \/ cfg.include_uppercase /\ \E c \in set : is_ascii_uppercase(c)
    \/ cfg.include_lowercase /\ \E c \in set : is_ascii_lowercase(c)
    \/ cfg.include_numbers /\ \E c \in set : is_ascii_digit(c)
    \/ cfg.include_symbols /\ \E c \in set : ~is_ascii_alphanumeric(c)

\* Fault: the validation also runs for length 1.
validation_fails_any_length(cfg, set) ==
    ~has_required(cfg, set) /\ cfg.include_chars = {}

\* Fault: the validation forgets that include_chars overrides it.
validation_fails_ignoring_include(cfg, set) ==
    cfg.length > 1 /\ ~has_required(cfg, set)

\* Fault: the test of include_chars is inverted.
validation_fails_when_included(cfg, set) ==
    cfg.length > 1 /\ ~has_required(cfg, set) /\ cfg.include_chars # {}

\* Fault: the validation is missing.
validation_fails_never(cfg, set) == FALSE

\* lines 172-182: TRUE when the validation returns Err
validation_fails(cfg, set) ==
    cfg.length > 1 /\ ~has_required(cfg, set) /\ cfg.include_chars = {}

\* Fault: the excluded characters are removed before include_chars is added.
working_set_exclude_first(cfg) ==
    remove_ambiguous(extend_include(remove_excluded(category_pools(cfg), cfg), cfg), cfg)

\* Fault: the ambiguous characters are removed before include_chars is added.
working_set_ambiguous_first(cfg) ==
    remove_excluded(extend_include(remove_ambiguous(category_pools(cfg), cfg), cfg), cfg)

\* the working set when the validation is reached (lines 130-170)
working_set(cfg) ==
    remove_excluded(remove_ambiguous(extend_include(category_pools(cfg), cfg), cfg), cfg)

ErrNoValid == "No valid characters available for password generation"

\* Fault: the characters are collected in a Vec, not in a HashSet.
build_character_set_in_vec(cfg, key) ==
    LET all == (IF cfg.include_uppercase THEN uppercase ELSE <<>>)
               \o (IF cfg.include_lowercase THEN lowercase ELSE <<>>)
               \o (IF cfg.include_numbers THEN numbers ELSE <<>>)
               \o (IF cfg.include_symbols
                   THEN unwrap_or(cfg.custom_symbols, default_symbols)
                   ELSE <<>>)
               \o into_iter(cfg.include_chars, key)
        kept == SelectSeq(all, LAMBDA c : c \in working_set(cfg))
    IN  IF validation_fails(cfg, chars(kept))
        THEN [ok |-> FALSE, val |-> <<>>, err |-> ErrNoValid]
        ELSE [ok |-> TRUE, val |-> kept, err |-> ""]

\* Fault: the Vec is cut to config.length characters (a take(length) on the iterator).
build_character_set_truncated(cfg, key) ==
    LET set == working_set(cfg) IN
    IF validation_fails(cfg, set)
    THEN [ok |-> FALSE, val |-> <<>>, err |-> ErrNoValid]
    ELSE LET vec == into_iter(set, key)
             kept == IF cfg.length < Len(vec) THEN cfg.length ELSE Len(vec)
         IN  [ok |-> TRUE, val |-> [k \in 1..kept |-> vec[k]], err |-> ""]

\* Result<Vec<char>, String>: [ok |-> TRUE, val |-> vec] or [ok |-> FALSE, err |-> e]
build_character_set(cfg, key) ==
    LET set == working_set(cfg) IN
    IF validation_fails(cfg, set)
    THEN [ok |-> FALSE, val |-> <<>>, err |-> ErrNoValid]
    ELSE [ok |-> TRUE, val |-> into_iter(set, key), err |-> ""]

(***************************************************************************)
(* The generator behind rand::thread_rng(): a thread-local generator,      *)
(* seeded from the operating system on first use and advanced by every     *)
(* draw.  Its state is a number; gen_range(0..n) reduces the state to an   *)
(* index below n.                                                          *)
(***************************************************************************)
Seeds == 0..MaxSeed

next_rng(s) == (s * 75 + 74) % 65537

gen_range(s, n) == s % n

\* lines 191-194: the loop `for _ in 0..length`, with `left` draws to go
RECURSIVE push_chars(_, _, _, _)
push_chars(cs, left, s, password) ==
    IF left = 0
    THEN [password |-> password, rng |-> s]
    ELSE LET random_index == gen_range(s, Len(cs)) IN
         push_chars(cs, left - 1, next_rng(s), Append(password, cs[random_index + 1]))

\* String::with_capacity(length) panics ("capacity overflow") above isize::MAX;
\* gen_range panics on the empty range 0..0
generate_password_panics(cs, len) ==
    len > IsizeMax \/ (len > 0 /\ Len(cs) = 0)

\* Fault: the loop runs once too often (0..=length).
generate_password_extra_draw(cs, len, s) == push_chars(cs, len + 1, s, <<>>)

\* lines 187-197, for a call that does not panic; s is the generator's state
generate_password(cs, len, s) == push_chars(cs, len, s, <<>>)

(***************************************************************************)
(* Formatting.                                                             *)
(***************************************************************************)
\* Display of an unsigned integer: its decimal digits
RECURSIVE to_string(_)
to_string(n) ==
    IF n < 10 THEN <<48 + n>> ELSE to_string(n \div 10) \o <<48 + (n % 10)>>

\* "Password "
PasswordPrefix == <<80, 97, 115, 115, 119, 111, 114, 100, 32>>

\* Fault: the ordinal of a line is the loop variable itself (0-based).
format_line_zero_based(cnt, idx, password) ==
    IF cnt = 1
    THEN password
    ELSE PasswordPrefix \o to_string(idx) \o <<58, 32>> \o password

\* lines 105-109: the line println! writes for iteration idx
format_line(cnt, idx, password) ==
    IF cnt = 1
    THEN password
    ELSE PasswordPrefix \o to_string(idx + 1) \o <<58, 32>> \o password

ErrLength == "Error: Password length must be greater than 0"
ErrCount == "Error: Password count must be greater than 0"
ErrEmpty == "Error: No characters available for password generation. Check your exclusion rules."
PanicMessage == "panicked"

(***************************************************************************)
(* The flags a user can pass.                                              *)
(***************************************************************************)
LengthFlags == {<<>>} \cup {<<v>> : v \in (-1)..MaxLength}
CountFlags == {<<>>} \cup {<<v>> : v \in (-1)..MaxCount}
\* --symbols: absent, "ab", "O!~!", ""
SymbolsFlags == {<<>>, << <<97, 98>> >>, << <<79, 33, 126, 33>> >>, << <<>> >>}
\* --exclude: absent, "ab", "xOab", "0123456789"
ExcludeFlags == {<<>>, << <<97, 98>> >>, << <<120, 79, 97, 98>> >>, <<numbers>>}
\* --include: absent, "x", "OeO" with e = U+00E9
IncludeFlags == {<<>>, << <<120>> >>, << <<79, 233, 79>> >>}

Flags ==
    [length : LengthFlags, count : CountFlags,
     no_uppercase : BOOLEAN, no_lowercase : BOOLEAN,
     no_numbers : BOOLEAN, no_symbols : BOOLEAN,
     symbols : SymbolsFlags, exclude : ExcludeFlags, include : IncludeFlags,
     no_ambiguous : BOOLEAN]

\* The Context of `oat password` with no flag on the command line
NoFlags ==
    [length |-> <<>>, count |-> <<>>,
     no_uppercase |-> FALSE, no_lowercase |-> FALSE,
     no_numbers |-> FALSE, no_symbols |-> FALSE,
     symbols |-> <<>>, exclude |-> <<>>, include |-> <<>>,
     no_ambiguous |-> FALSE]

\* Fault: the flags of the two letter categories are crossed.
PasswordConfig_crossed(f, len) ==
    [length |-> len,
     include_uppercase |-> ~f.no_lowercase,
     include_lowercase |-> ~f.no_uppercase,
     include_numbers |-> ~f.no_numbers,
     include_symbols |-> ~f.no_symbols,
     custom_symbols |-> f.symbols,
     exclude_chars |-> chars(unwrap_or(f.exclude, <<>>)),
     include_chars |-> chars(unwrap_or(f.include, <<>>)),
     no_ambiguous |-> f.no_ambiguous]

\* lines 84-94
PasswordConfig(f, len) ==
    [length |-> len,
     include_uppercase |-> ~f.no_uppercase,
     include_lowercase |-> ~f.no_lowercase,
     include_numbers |-> ~f.no_numbers,
     include_symbols |-> ~f.no_symbols,
     custom_symbols |-> f.symbols,
     exclude_chars |-> chars(unwrap_or(f.exclude, <<>>)),
     include_chars |-> chars(unwrap_or(f.include, <<>>)),
     no_ambiguous |-> f.no_ambiguous]

(***************************************************************************)
(* The run of password_action.                                             *)
(***************************************************************************)
Init ==
    /\ context \in Flags
    /\ pc = "start"
    /\ length = 0
    /\ count = 0
    /\ config = <<>>
    /\ result = "none"
    /\ charset = <<>>
    /\ i = 0
    /\ rng = <<>>
    /\ passwords = <<>>
    /\ stdout = <<>>
    /\ stderr = <<>>

\* Fault: the check of count is missing.
early_error_length_only(len, cnt) ==
    IF len = 0 THEN <<ErrLength>> ELSE <<>>

\* Fault: the check of length is missing.
early_error_count_only(len, cnt) ==
    IF cnt = 0 THEN <<ErrCount>> ELSE <<>>

\* lines 74-82: the error password_action returns with before the config is built
early_error(len, cnt) ==
    IF len = 0 THEN <<ErrLength>> ELSE IF cnt = 0 THEN <<ErrCount>> ELSE <<>>

\* Fault: the loop stops one iteration early.
loop_continues_short(idx, cnt) == idx < cnt - 1

\* line 103: whether `for i in 0..count` runs its body for idx
loop_continues(idx, cnt) == idx < cnt

\* Fault: the caller's test charset.is_empty() (lines 98-101) is missing.
password_action_no_empty_test ==
    /\ pc = "start"
    /\ \E key \in HashKeys :
       LET len == as_usize(unwrap_or(context.length, 12))
           cnt == as_usize(unwrap_or(context.count, 1))
           cfg == PasswordConfig(context, len)
           r == build_character_set(cfg, key)
       IN  /\ length' = len
           /\ count' = cnt
           /\ IF early_error(len, cnt) # <<>>
              THEN /\ stderr' = stderr \o early_error(len, cnt)
                   /\ pc' = "done"
                   /\ UNCHANGED <<config, result, charset>>
              ELSE /\ config' = <<cfg>>
                   /\ result' = IF r.ok THEN "Ok" ELSE "Err"
                   /\ charset' = r.val
                   /\ IF ~r.ok
                      THEN /\ stderr' = Append(stderr, "Error: " \o r.err)
                           /\ pc' = "done"
                      ELSE /\ stderr' = stderr
                           /\ pc' = "loop"
    /\ UNCHANGED <<context, i, rng, passwords, stdout>>

\* Fault: the `return` after the empty-alphabet message (line 100) is missing.
password_action_no_return ==
    /\ pc = "start"
    /\ \E key \in HashKeys :
       LET len == as_usize(unwrap_or(context.length, 12))
           cnt == as_usize(unwrap_or(context.count, 1))
           cfg == PasswordConfig(context, len)
           r == build_character_set(cfg, key)
       IN  /\ length' = len
           /\ count' = cnt
           /\ IF early_error(len, cnt) # <<>>
              THEN /\ stderr' = stderr \o early_error(len, cnt)
                   /\ pc' = "done"
                   /\ UNCHANGED <<config, result, charset>>
              ELSE /\ config' = <<cfg>>
                   /\ result' = IF r.ok THEN "Ok" ELSE "Err"
                   /\ charset' = r.val
                   /\ IF ~r.ok
                      THEN /\ stderr' = Append(stderr, "Error: " \o r.err)
                           /\ pc' = "done"
                      ELSE IF r.val = <<>>
                      THEN /\ stderr' = Append(stderr, ErrEmpty)
                           /\ pc' = "loop"
                      ELSE /\ stderr' = stderr
                           /\ pc' = "loop"
    /\ UNCHANGED <<context, i, rng, passwords, stdout>>

\* lines 62-102 and 112: from the entry to the head of the loop
password_action ==
    /\ pc = "start"
    /\ \E key \in HashKeys :
       LET len == as_usize(unwrap_or(context.length, 12))
           cnt == as_usize(unwrap_or(context.count, 1))
           cfg == PasswordConfig(context, len)
           r == build_character_set(cfg, key)
       IN  /\ length' = len
           /\ count' = cnt
           /\ IF early_error(len, cnt) # <<>>
              THEN /\ stderr' = stderr \o early_error(len, cnt)
                   /\ pc' = "done"
                   /\ UNCHANGED <<config, result, charset>>
              ELSE /\ config' = <<cfg>>
                   /\ result' = IF r.ok THEN "Ok" ELSE "Err"
                   /\ charset' = r.val
                   /\ IF ~r.ok
                      THEN /\ stderr' = Append(stderr, "Error: " \o r.err)
                           /\ pc' = "done"
                      ELSE IF r.val = <<>>
                      THEN /\ stderr' = Append(stderr, ErrEmpty)
                           /\ pc' = "done"
                      ELSE /\ stderr' = stderr
                           /\ pc' = "loop"
    /\ UNCHANGED <<context, i, rng, passwords, stdout>>

\* lines 103-110: one iteration of `for i in 0..count`, or the loop's end
loop_iteration ==
    /\ pc = "loop"
    /\ loop_continues(i, count) => i < MaxCount
    /\ IF ~loop_continues(i, count)
       THEN /\ pc' = "done"
            /\ UNCHANGED <<i, rng, passwords, stdout, stderr>>
       ELSE \E seed \in Seeds :
            LET s == unwrap_or(rng, seed) IN
            IF generate_password_panics(charset, length)
            THEN /\ rng' = <<s>>
                 /\ stderr' = Append(stderr, PanicMessage)
                 /\ pc' = "panicked"
                 /\ UNCHANGED <<i, passwords, stdout>>
            ELSE LET g == generate_password(charset, length, s) IN
                 /\ rng' = <<g.rng>>
                 /\ passwords' = Append(passwords, g.password)
                 /\ stdout' = Append(stdout, format_line(count, i, g.password))
                 /\ i' = i + 1
                 /\ pc' = "loop"
                 /\ stderr' = stderr
    /\ UNCHANGED <<context, length, count, config, result, charset>>

Next ==
    \/ password_action
    \/ loop_iteration

Spec == Init /\ [][Next]_vars

\* password_action is a sequential function: a run that can take a step takes it.
FairSpec == Spec /\ WF_vars(Next)

(***************************************************************************)
(* build_character_set as a function of its config: the config is any one  *)
(* password_action can construct, and the function is applied to it        *)
(* repeatedly, each time on a HashSet of its own (with keys of its own).   *)
(* `i` counts the applications.                                            *)
(***************************************************************************)
Configs ==
    {PasswordConfig(f, as_usize(unwrap_or(f.length, 12))) :
        f \in {g \in Flags : g.count = <<>> /\ as_usize(unwrap_or(g.length, 12)) # 0}}

InitBuild ==
    /\ context \in {g \in Flags : g.count = <<>> /\ as_usize(unwrap_or(g.length, 12)) # 0}
    /\ pc = "build"
    /\ config = <<PasswordConfig(context, as_usize(unwrap_or(context.length, 12)))>>
    /\ config[1] \in Configs
    /\ length = config[1].length
    /\ count = 1
    /\ result = "none"
    /\ charset = <<>>
    /\ i = 0
    /\ rng = <<>>
    /\ passwords = <<>>
    /\ stdout = <<>>
    /\ stderr = <<>>

apply_build ==
    /\ pc = "build"
    /\ i < MaxBuilds
    /\ \E key \in HashKeys :
       LET r == build_character_set(config[1], key) IN
       /\ result' = IF r.ok THEN "Ok" ELSE "Err"
       /\ charset' = r.val
    /\ i' = i + 1
    /\ UNCHANGED <<context, pc, length, count, config, rng, passwords, stdout, stderr>>

NextBuild == apply_build

SpecBuild == InitBuild /\ [][NextBuild]_vars

(***************************************************************************)
(* generate_password as a relation: what it can return when the generator  *)
(* may yield any value, so that gen_range(0..n) may return any index       *)
(* below n.                                                                *)
(***************************************************************************)
\* Fault: the range of the draw is 0..n-1, so the last element is never drawn.
random_indexes_short(n) == 0..(n - 2)

\* line 192: the values rng.gen_range(0..n) can return
random_indexes(n) == 0..(n - 1)

\* lines 191-194: the passwords reachable from `prefixes` with `left` draws to go
RECURSIVE password_outcomes(_, _, _)
password_outcomes(cs, left, prefixes) ==
    IF left = 0
    THEN prefixes
    ELSE password_outcomes(cs, left - 1,
             {Append(p, cs[random_index + 1]) :
                 p \in prefixes, random_index \in random_indexes(Len(cs))})

\* lines 187-197: the Strings generate_password(cs, len) can return
generate_password_outcomes(cs, len) == password_outcomes(cs, len, {<<>>})

\* Fault: a password equal to an earlier one of the run is drawn again.
later_passwords_distinct(cs, len, earlier) ==
    generate_password_outcomes(cs, len) \ chars(earlier)

\* line 104: what the call of an iteration can return after the `earlier` passwords
later_passwords(cs, len, earlier) == generate_password_outcomes(cs, len)

\* The characters of the sampled alphabets: x, O, !
SampleChars == {120, 79, 33}

\* Every Vec holding the characters of `set` once each
Orderings(set) ==
    {v \in [1..Cardinality(set) -> set] : \A j, k \in 1..Cardinality(set) : v[j] = v[k] => j = k}

InitSample ==
    /\ pc = "loop"
    /\ charset \in UNION {Orderings(set) : set \in (SUBSET SampleChars) \ {{}}}
    /\ length \in 1..MaxLength
    /\ count \in 1..MaxCount
    /\ context = [NoFlags EXCEPT !.length = <<length>>, !.count = <<count>>]
    /\ config = <<>>
    /\ result = "Ok"
    /\ i = 0
    /\ rng = <<>>
    /\ passwords = <<>>
    /\ stdout = <<>>
    /\ stderr = <<>>

\* lines 103-104: one iteration of the loop, without the printing
sample_iteration ==
    /\ pc = "loop"
    /\ loop_continues(i, count)
    /\ \E password \in later_passwords(charset, length, passwords) :
       passwords' = Append(passwords, password)
    /\ i' = i + 1
    /\ UNCHANGED <<context, pc, length, count, config, result, charset, rng, stdout, stderr>>

NextSample == sample_iteration

SpecSample == InitSample /\ [][NextSample]_vars

(***************************************************************************)
(* Vocabulary of the properties.                                           *)
(***************************************************************************)
Constructed == config # <<>>
Cfg == config[1]
Alphabet == chars(charset)
Finished == pc \in {"done", "panicked"}

Capitals == 65..90
Smalls == 97..122
Digits == 48..57
Punctuation == {33, 35, 36, 37, 38, 40, 41, 42, 43, 44, 45, 46, 58, 59, 60, 61,
                62, 63, 64, 91, 93, 94, 95, 123, 124, 125}
Ambiguous == {48, 79, 108, 49, 73}

\* The symbol pool of a config: custom_symbols when present, else the default pool.
SymbolPool(c) ==
    IF c.custom_symbols # <<>>
    THEN {c.custom_symbols[1][k] : k \in 1..Len(c.custom_symbols[1])}
    ELSE Punctuation

\* The alphabet a config stands for: pools of the enabled categories, plus
\* include_chars, minus the ambiguous characters if asked, minus exclude_chars.
SurvivingSet(c) ==
    ((((IF c.include_uppercase THEN Capitals ELSE {})
       \cup (IF c.include_lowercase THEN Smalls ELSE {})
       \cup (IF c.include_numbers THEN Digits ELSE {})
       \cup (IF c.include_symbols THEN SymbolPool(c) ELSE {})
       \cup c.include_chars)
      \ (IF c.no_ambiguous THEN Ambiguous ELSE {}))
     \ c.exclude_chars)

AllDisabled(c) ==
    ~c.include_uppercase /\ ~c.include_lowercase /\ ~c.include_numbers /\ ~c.include_symbols

(***************************************************************************)
(* C1: whenever build_character_set returns Ok, the characters returned,   *)
(* taken as a set, are exactly the pools of the enabled categories (the    *)
(* custom symbols in place of the default symbols when present), plus      *)
(* include_chars, minus the ambiguous characters if no_ambiguous, minus    *)
(* exclude_chars.                                                          *)
(***************************************************************************)
C1_AlphabetIsSurvivingSet ==
    (Constructed /\ result = "Ok") => Alphabet = SurvivingSet(Cfg)

C1_Witness ==
    /\ Constructed /\ result = "Ok" /\ charset # <<>>
    /\ Cfg.include_symbols /\ Cfg.custom_symbols # <<>> /\ Cfg.include_lowercase
    /\ Cfg.include_chars # {} /\ Cfg.exclude_chars # {} /\ Cfg.no_ambiguous

(***************************************************************************)
(* C2: no character of exclude_chars is in the alphabet returned by        *)
(* build_character_set nor in any generated password, also when the        *)
(* character is in include_chars, in custom_symbols or in an enabled pool. *)
(***************************************************************************)
C2_ExclusionWins ==
    Constructed =>
        /\ Alphabet \cap Cfg.exclude_chars = {}
        /\ \A k \in 1..Len(passwords) : chars(passwords[k]) \cap Cfg.exclude_chars = {}

C2_Witness ==
    /\ Constructed /\ passwords # <<>>
    /\ Cfg.exclude_chars \cap Cfg.include_chars # {}
    /\ Cfg.include_symbols /\ Cfg.exclude_chars \cap SymbolPool(Cfg) # {}
    /\ Cfg.include_lowercase

(***************************************************************************)
(* C3: with no_ambiguous set, none of 0, O, l, 1, I is in the returned     *)
(* alphabet nor in any generated password, whatever the toggles are and    *)
(* also when include_chars or custom_symbols supplies such a character.    *)
(***************************************************************************)
C3_NoAmbiguous ==
    (Constructed /\ Cfg.no_ambiguous) =>
        /\ Alphabet \cap Ambiguous = {}
        /\ \A k \in 1..Len(passwords) : chars(passwords[k]) \cap Ambiguous = {}

C3_Witness ==
    /\ Constructed /\ Cfg.no_ambiguous /\ passwords # <<>>
    /\ Cfg.include_chars \cap Ambiguous # {}
    /\ Cfg.include_symbols /\ SymbolPool(Cfg) \cap Ambiguous # {}

(***************************************************************************)
(* C4: every string generate_password returns has exactly `length`         *)
(* characters, each a member of the alphabet passed to it.                 *)
(***************************************************************************)
C4_LengthAndMembership ==
    \A k \in 1..Len(passwords) :
        /\ Len(passwords[k]) = length
        /\ \A j \in 1..Len(passwords[k]) : passwords[k][j] \in Alphabet

C4_Witness ==
    /\ Len(passwords) = 2
    /\ length = 12
    /\ Cardinality(chars(passwords[1])) > 1
    /\ passwords[1] # passwords[2]

(***************************************************************************)
(* C5 as stated: whenever the working set is empty after inclusion,        *)
(* ambiguity removal and exclusion, build_character_set fails; it never    *)
(* returns Ok with an empty alphabet.  The code returns Ok(empty) for      *)
(* length 1 and for a non-empty include_chars.                             *)
(***************************************************************************)
C5_EmptySetAlwaysFails ==
    (Constructed /\ SurvivingSet(Cfg) = {}) => result = "Err"

(***************************************************************************)
(* C5, amended: when the working set is empty, build_character_set fails   *)
(* if and only if length > 1 and include_chars is empty; otherwise it      *)
(* returns Ok with an empty alphabet.                                      *)
(***************************************************************************)
C5_EmptySetFailsIff ==
    (Constructed /\ SurvivingSet(Cfg) = {}) =>
        /\ result = "Err" <=> (Cfg.length > 1 /\ Cfg.include_chars = {})
        /\ result = "Ok" => charset = <<>>

C5_Witness ==
    /\ Constructed /\ SurvivingSet(Cfg) = {} /\ result = "Err"
    /\ Cfg.include_numbers /\ Cfg.exclude_chars # {}

\* An enabled category has a surviving character of its class.
CategorySurvives(c) ==
    LET S == SurvivingSet(c) IN
    \/ c.include_uppercase /\ S \cap Capitals # {}
    \/ c.include_lowercase /\ S \cap Smalls # {}
    \/ c.include_numbers /\ S \cap Digits # {}
    \/ c.include_symbols /\ S \ (Capitals \cup Smalls \cup Digits) # {}

(***************************************************************************)
(* C6: with length > 1 and a non-empty surviving set, build_character_set  *)
(* fails if and only if no enabled category has a surviving character of   *)
(* its class and include_chars is empty.  (Non-alphanumeric is read as     *)
(* the code reads it: not an ASCII letter or digit.)                       *)
(***************************************************************************)
C6_FailsIffNoCategoryAndNoInclude ==
    (Constructed /\ Cfg.length > 1 /\ SurvivingSet(Cfg) # {}) =>
        (result = "Err" <=> (~CategorySurvives(Cfg) /\ Cfg.include_chars = {}))

C6_Witness ==
    /\ Constructed /\ Cfg.length > 1 /\ SurvivingSet(Cfg) # {}
    /\ result = "Err"

\* All categories disabled and include_chars one character that survives.
ManualOnly(c) ==
    /\ AllDisabled(c)
    /\ Cardinality(c.include_chars) = 1
    /\ c.include_chars \cap c.exclude_chars = {}
    /\ ~(c.no_ambiguous /\ c.include_chars \subseteq Ambiguous)
    /\ c.length > 1

(***************************************************************************)
(* C7: with all four categories disabled, include_chars = {x} (x neither   *)
(* excluded nor removed as ambiguous) and length > 1, the build succeeds   *)
(* with the alphabet exactly {x}, and every character of every generated   *)
(* password is x.                                                          *)
(***************************************************************************)
C7_ManualIncludeBypasses ==
    (Constructed /\ ManualOnly(Cfg)) =>
        /\ result = "Ok"
        /\ Len(charset) = 1
        /\ Alphabet = Cfg.include_chars
        /\ \A k \in 1..Len(passwords) : chars(passwords[k]) = Cfg.include_chars

C7_Witness ==
    /\ Constructed /\ ManualOnly(Cfg)
    /\ pc = "done" /\ length = 2 /\ Len(passwords) = 2

(***************************************************************************)
(* C8 as stated: with all four categories disabled, include_chars empty    *)
(* and length > 1, construction fails and the error reported is the        *)
(* empty-alphabet error.  The code reports the error of the validation of  *)
(* build_character_set, which runs before the caller's emptiness check.    *)
(***************************************************************************)
C8_ReportsEmptyAlphabet ==
    (Constructed /\ AllDisabled(Cfg) /\ Cfg.include_chars = {} /\ Cfg.length > 1) =>
        /\ result = "Err"
        /\ stderr = <<ErrEmpty>>

(***************************************************************************)
(* C8, amended: with all four categories disabled, include_chars empty     *)
(* and length > 1, construction fails and the error reported is the one    *)
(* of build_character_set ("No valid characters available for password     *)
(* generation"); the caller's empty-alphabet message is not printed.       *)
(***************************************************************************)
C8_ReportsNoValidCharacters ==
    (Constructed /\ AllDisabled(Cfg) /\ Cfg.include_chars = {} /\ Cfg.length > 1) =>
        /\ result = "Err"
        /\ stderr = <<"Error: No valid characters available for password generation">>
        /\ stdout = <<>>
        /\ pc = "done"

C8_Witness ==
    /\ Constructed /\ AllDisabled(Cfg) /\ Cfg.include_chars = {} /\ Cfg.length > 1
    /\ length = 2 /\ count = 2 /\ pc = "done"

(***************************************************************************)
(* C9: a run of password_action ends either with exactly `count`           *)
(* passwords printed and no error, or with an error and no password        *)
(* printed; no run prints passwords and an error, and none ends silently.  *)
(* (The panic message of a panicking run counts as its error.)             *)
(***************************************************************************)
C9_AllOrNothing ==
    /\ stderr # <<>> => stdout = <<>>
    /\ Finished =>
          \/ Len(stdout) = count /\ stdout # <<>> /\ stderr = <<>>
          \/ stdout = <<>> /\ stderr # <<>>

C9_Witness ==
    pc = "done" /\ count = 2 /\ Len(stdout) = 2 /\ stderr = <<>>

(***************************************************************************)
(* C10: a successful run with count = N generates exactly N passwords,     *)
(* one per call of generate_password, all over the same alphabet; with     *)
(* count = 1 exactly one password is produced.                             *)
(***************************************************************************)
C10_ExactlyCountPasswords ==
    (pc = "done" /\ stderr = <<>>) =>
        /\ count >= 1
        /\ Len(passwords) = count
        /\ Len(stdout) = count
        /\ \A k \in 1..Len(passwords) : chars(passwords[k]) \subseteq Alphabet

C10_Witness ==
    /\ pc = "done" /\ stderr = <<>> /\ count = 2
    /\ Len(passwords) = 2 /\ passwords[1] # passwords[2]

(***************************************************************************)
(* C11: when length == 0 or count == 0, password_action reports an error   *)
(* and returns before a PasswordConfig is constructed: neither             *)
(* build_character_set nor generate_password (which would seed the         *)
(* generator) is invoked, and no password is printed.                      *)
(***************************************************************************)
C11_ZeroRejectedBeforeConstruction ==
    (pc # "start" /\ (length = 0 \/ count = 0)) =>
        /\ pc = "done"
        /\ config = <<>>
        /\ result = "none"
        /\ rng = <<>>
        /\ passwords = <<>>
        /\ stdout = <<>>
        /\ stderr = <<IF length = 0 THEN ErrLength ELSE ErrCount>>

C11_Witness ==
    pc = "done" /\ length = 2 /\ count = 0 /\ stderr # <<>>

(***************************************************************************)
(* C12: building the alphabet again from the same config gives the same    *)
(* outcome: both builds fail, or both succeed with the same set of         *)
(* characters (the order of the sequence may differ).                      *)
(***************************************************************************)
C12_RebuildSameOutcome ==
    [][(i >= 1 /\ i' = i + 1) =>
          /\ result' = result
          /\ chars(charset') = chars(charset)]_vars

C12_Witness ==
    /\ i = 2 /\ result = "Ok"
    /\ Len(charset) > 1
    /\ charset # into_iter(Alphabet, 1)

(***************************************************************************)
(* C13: the sequence build_character_set returns never holds a character   *)
(* twice, also when several sources contribute the character (a pool and   *)
(* include_chars, custom symbols that repeat it or overlap a pool).        *)
(***************************************************************************)
C13_NoDuplicates ==
    result = "Ok" => Len(charset) = Cardinality(Alphabet)

C13_Witness ==
    /\ result = "Ok" /\ 79 \in Alphabet /\ 33 \in Alphabet
    /\ Cfg.include_uppercase /\ Cfg.include_symbols
    /\ Cfg.custom_symbols = << <<79, 33, 126, 33>> >>
    /\ 79 \in Cfg.include_chars

(***************************************************************************)
(* C14: with the symbol toggle enabled and custom_symbols present, a       *)
(* default symbol is in the alphabet only if it is also in custom_symbols  *)
(* or include_chars; with the symbol toggle disabled, the alphabet is the  *)
(* one of the same config without custom_symbols.                          *)
(***************************************************************************)
C14_CustomReplacesDefault ==
    result = "Ok" =>
        /\ (Cfg.include_symbols /\ Cfg.custom_symbols # <<>>) =>
              \A c \in Alphabet \cap Punctuation :
                  c \in SymbolPool(Cfg) \cup Cfg.include_chars
        /\ ~Cfg.include_symbols =>
              Alphabet = SurvivingSet([Cfg EXCEPT !.custom_symbols = <<>>])

C14_Witness ==
    /\ result = "Ok"
    /\ Cfg.include_symbols /\ Cfg.custom_symbols = << <<79, 33, 126, 33>> >>
    /\ 33 \in Alphabet /\ 126 \in Alphabet /\ 64 \notin Alphabet

\* c is taken away by the ambiguity rule or by the exclusion of config cf.
Removed(cf, c) ==
    c \in cf.exclude_chars \/ (cf.no_ambiguous /\ c \in Ambiguous)

(***************************************************************************)
(* C15: whenever the build succeeds, every character of include_chars      *)
(* that is neither excluded nor removed as ambiguous is in the alphabet,   *)
(* whatever the category toggles are.                                      *)
(***************************************************************************)
C15_IncludedCharsPresent ==
    result = "Ok" =>
        \A c \in Cfg.include_chars : ~Removed(Cfg, c) => c \in Alphabet

C15_Witness ==
    /\ result = "Ok"
    /\ ~Cfg.include_lowercase /\ Cfg.include_uppercase
    /\ 120 \in Cfg.include_chars /\ 120 \in Alphabet
    /\ Cfg.exclude_chars # {}

(***************************************************************************)
(* C16: with include_chars empty and custom_symbols absent, the alphabet   *)
(* holds no character of a disabled category's pool; with only uppercase   *)
(* and lowercase enabled, no exclusion and no_ambiguous false, it is       *)
(* exactly the 52 Latin letters.                                           *)
(***************************************************************************)
C16_DisabledContributesNothing ==
    (result = "Ok" /\ Cfg.include_chars = {} /\ Cfg.custom_symbols = <<>>) =>
        /\ ~Cfg.include_uppercase => Alphabet \cap Capitals = {}
        /\ ~Cfg.include_lowercase => Alphabet \cap Smalls = {}
        /\ ~Cfg.include_numbers => Alphabet \cap Digits = {}
        /\ ~Cfg.include_symbols => Alphabet \cap Punctuation = {}
        /\ (/\ Cfg.include_uppercase /\ Cfg.include_lowercase
            /\ ~Cfg.include_numbers /\ ~Cfg.include_symbols
            /\ Cfg.exclude_chars = {} /\ ~Cfg.no_ambiguous) =>
              /\ Alphabet = Capitals \cup Smalls
              /\ Len(charset) = 52

C16_Witness ==
    /\ result = "Ok" /\ Cfg.include_chars = {} /\ Cfg.custom_symbols = <<>>
    /\ Cfg.include_uppercase /\ Cfg.include_lowercase
    /\ ~Cfg.include_numbers /\ ~Cfg.include_symbols
    /\ Cfg.exclude_chars = {} /\ ~Cfg.no_ambiguous
    /\ Cfg.length = 12

\* The pools of the enabled categories of config cf.
EnabledPools(cf) ==
    (IF cf.include_uppercase THEN Capitals ELSE {})
    \cup (IF cf.include_lowercase THEN Smalls ELSE {})
    \cup (IF cf.include_numbers THEN Digits ELSE {})
    \cup (IF cf.include_symbols THEN SymbolPool(cf) ELSE {})

(***************************************************************************)
(* C17: whenever the build succeeds, every character of an enabled         *)
(* category's pool that is neither excluded nor removed as ambiguous is    *)
(* in the alphabet; lowercase only with exclude = {a, b} leaves c and the  *)
(* 23 other lowercase letters.                                             *)
(***************************************************************************)
C17_OnlyListedCharsRemoved ==
    result = "Ok" =>
        /\ \A c \in EnabledPools(Cfg) : ~Removed(Cfg, c) => c \in Alphabet
        /\ (/\ Cfg.include_lowercase /\ ~Cfg.include_uppercase
            /\ ~Cfg.include_numbers /\ ~Cfg.include_symbols
            /\ Cfg.exclude_chars = {97, 98} /\ Cfg.include_chars = {}
            /\ ~Cfg.no_ambiguous) =>
              /\ 99 \in Alphabet
              /\ Cardinality(Alphabet) = 24

C17_Witness ==
    /\ result = "Ok"
    /\ Cfg.include_lowercase /\ Cfg.include_uppercase
    /\ Cfg.exclude_chars = {97, 98} /\ Cfg.no_ambiguous
    /\ 99 \in Alphabet /\ 65 \in Alphabet /\ 97 \notin Alphabet /\ 79 \notin Alphabet

\* All strings of n characters over the set A
AllStrings(A, n) == [1..n -> A]

(***************************************************************************)
(* C18: for a non-empty alphabet A and a length n, the strings             *)
(* generate_password can return are exactly the strings of n characters    *)
(* over A (every element at every position, repeats allowed), whatever     *)
(* the order of the sequence that holds A.                                 *)
(***************************************************************************)
C18_AllStringsInAnyOrder ==
    \A cs \in Orderings(Alphabet) :
        generate_password_outcomes(cs, length) = AllStrings(Alphabet, length)

C18_Witness ==
    /\ Len(charset) = 3 /\ length = 2 /\ passwords # <<>>
    /\ passwords[1] = <<charset[3], charset[3]>>

(***************************************************************************)
(* C20: the passwords of a run are independent: whatever the earlier       *)
(* passwords are, the next call can return every string of `length`        *)
(* characters over the alphabet, so every sequence of `count` such         *)
(* strings is a possible output, with equal passwords or different ones.   *)
(***************************************************************************)
C20_LaterPasswordsUnconstrained ==
    loop_continues(i, count) =>
        \A w \in AllStrings(Alphabet, length) :
            ENABLED (sample_iteration /\ passwords' = Append(passwords, w))

C20_Witness ==
    /\ count = 2 /\ Len(passwords) = 2 /\ Len(charset) = 3 /\ length = 2
    /\ passwords[1] = passwords[2]

\* The decimal numeral of k, for k below 100
Numeral(k) == IF k < 10 THEN <<48 + k>> ELSE <<48 + (k \div 10), 48 + (k % 10)>>

\* "Password k: "
Ordinal(k) == <<80, 97, 115, 115, 119, 111, 114, 100, 32>> \o Numeral(k) \o <<58, 32>>

(***************************************************************************)
(* C21: the passwords are printed in generation order: at every moment     *)
(* of a run the k-th line printed is the k-th password generated, bare     *)
(* when count == 1 and prefixed with "Password k: " (k = 1, 2, ...) when   *)
(* count > 1.                                                              *)
(***************************************************************************)
C21_LinesInGenerationOrder ==
    /\ Len(stdout) = Len(passwords)
    /\ \A k \in 1..Len(stdout) :
          stdout[k] = IF count = 1 THEN passwords[k] ELSE Ordinal(k) \o passwords[k]

C21_Witness ==
    /\ pc = "done" /\ stderr = <<>> /\ count = 2 /\ length = 1
    /\ Len(stdout) = 2 /\ stdout[1] # stdout[2]
    /\ passwords[1] = passwords[2]

\* The command line has the one flag `name` (a boolean flag) and no other.
OnlyFlag(name) == context = [NoFlags EXCEPT ![name] = TRUE]

\* The categories a config enables
Enabled(cf) ==
    {name \in {"uppercase", "lowercase", "numbers", "symbols"} :
        \/ name = "uppercase" /\ cf.include_uppercase
        \/ name = "lowercase" /\ cf.include_lowercase
        \/ name = "numbers" /\ cf.include_numbers
        \/ name = "symbols" /\ cf.include_symbols}

(***************************************************************************)
(* C22: with no flag on the command line the config has length 12, all     *)
(* four categories enabled, no custom symbols, empty exclude and include   *)
(* sets and no_ambiguous false, and count is 1; a no-uppercase,            *)
(* no-lowercase, no-numbers or no-symbols flag disables its own category   *)
(* and no other.                                                           *)
(***************************************************************************)
C22_DefaultsAndToggles ==
    Constructed =>
        /\ context = NoFlags =>
              /\ length = 12 /\ count = 1
              /\ Cfg = [length |-> 12,
                        include_uppercase |-> TRUE, include_lowercase |-> TRUE,
                        include_numbers |-> TRUE, include_symbols |-> TRUE,
                        custom_symbols |-> <<>>,
                        exclude_chars |-> {}, include_chars |-> {},
                        no_ambiguous |-> FALSE]
        /\ OnlyFlag("no_uppercase") => Enabled(Cfg) = {"lowercase", "numbers", "symbols"}
        /\ OnlyFlag("no_lowercase") => Enabled(Cfg) = {"uppercase", "numbers", "symbols"}
        /\ OnlyFlag("no_numbers") => Enabled(Cfg) = {"uppercase", "lowercase", "symbols"}
        /\ OnlyFlag("no_symbols") => Enabled(Cfg) = {"uppercase", "lowercase", "numbers"}
        /\ Cfg.include_uppercase = ~context.no_uppercase
        /\ Cfg.include_lowercase = ~context.no_lowercase
        /\ Cfg.include_numbers = ~context.no_numbers
        /\ Cfg.include_symbols = ~context.no_symbols

C22_Witness ==
    /\ Constructed /\ context = NoFlags
    /\ pc = "done" /\ Len(passwords) = 1 /\ Len(passwords[1]) = 12

(***************************************************************************)
(* C23: generate_password is never called with an empty alphabet: when     *)
(* the run is in the generation loop (or has left it, by its end or by a   *)
(* panic of generate_password) the charset is not empty, so the range      *)
(* 0..charset.len() of a draw is never empty.                              *)
(***************************************************************************)
C23_LoopAlphabetNotEmpty ==
    (pc \in {"loop", "panicked"} \/ passwords # <<>>) =>
        /\ Len(charset) > 0
        /\ random_indexes(Len(charset)) # {}

C23_Witness ==
    /\ pc = "loop" /\ Len(charset) = 1 /\ Len(passwords) = 1
    /\ AllDisabled(Cfg) /\ Cfg.exclude_chars # {}

\* The integers the user asks for: the flag's value, or the default without the flag.
LengthGiven == IF context.length = <<>> THEN 12 ELSE context.length[1]
CountGiven == IF context.count = <<>> THEN 1 ELSE context.count[1]

(***************************************************************************)
(* C24 as stated: a zero or negative length or count is rejected with an   *)
(* error before the config is constructed, and the length and count that   *)
(* reach build_character_set and the loop are the positive integers the    *)
(* user supplied.  The code casts a negative value to usize (lines 63-64), *)
(* where it is a huge positive number, not 0, and passes both tests.       *)
(***************************************************************************)
C24_NonPositiveRejected ==
    pc # "start" =>
        /\ (LengthGiven <= 0 \/ CountGiven <= 0) =>
              /\ pc = "done" /\ config = <<>> /\ result = "none"
              /\ stderr # <<>> /\ stdout = <<>>
        /\ Constructed =>
              /\ length = LengthGiven /\ Cfg.length = LengthGiven /\ length > 0
              /\ count = CountGiven /\ count > 0

(***************************************************************************)
(* C25: for a config whose surviving set is empty, the run prints one      *)
(* error and ends without generating a password: the error of              *)
(* build_character_set when it returned Err, the caller's empty-alphabet   *)
(* error when it returned Ok.                                              *)
(***************************************************************************)
C25_EmptySetRunFails ==
    (Constructed /\ SurvivingSet(Cfg) = {}) =>
        /\ pc = "done"
        /\ passwords = <<>> /\ stdout = <<>> /\ rng = <<>> /\ i = 0
        /\ result = "Err" =>
              stderr = <<"Error: No valid characters available for password generation">>
        /\ result = "Ok" =>
              stderr = <<"Error: No characters available for password generation. Check your exclusion rules.">>
        /\ result \in {"Ok", "Err"}

C25_Witness ==
    /\ Constructed /\ SurvivingSet(Cfg) = {} /\ result = "Ok" /\ pc = "done"
    /\ Cfg.length = 2 /\ Cfg.include_chars # {} /\ stderr # <<>>

(***************************************************************************)
(* C26 as stated: whenever build_character_set returns Ok for a config     *)
(* with length > 1, the returned alphabet is non-empty.  The code returns  *)
(* Ok with an empty alphabet when include_chars is non-empty and every     *)
(* character is excluded or removed as ambiguous.                          *)
(***************************************************************************)
C26_OkIsNonEmpty ==
    (result = "Ok" /\ Cfg.length > 1) => charset # <<>>

(***************************************************************************)
(* C26, amended: whenever build_character_set returns Ok for a config      *)
(* with length > 1, the returned alphabet is empty exactly when            *)
(* include_chars is non-empty and no character survives the removals; in   *)
(* particular it is non-empty when include_chars is empty.                 *)
(***************************************************************************)
C26_OkIsNonEmptyUnlessIncluded ==
    (result = "Ok" /\ Cfg.length > 1) =>
        /\ charset = <<>> <=> (Cfg.include_chars # {} /\ SurvivingSet(Cfg) = {})
        /\ Cfg.include_chars = {} => Len(charset) > 0

C26_Witness ==
    /\ result = "Ok" /\ Cfg.length > 1 /\ Cfg.include_chars = {}
    /\ Cfg.exclude_chars = chars(numbers) /\ ~Cfg.include_numbers
    /\ Cfg.include_symbols /\ Cfg.custom_symbols = << <<97, 98>> >>
    /\ ~Cfg.include_uppercase /\ Cfg.include_lowercase
    /\ i = 2

\* The characters of the enabled categories' pools that survive the removals
PoolSurvivors(cf) == {c \in EnabledPools(cf) : ~Removed(cf, c)}

\* Only the symbol category is enabled, its pool is custom and made of letters
\* and digits, none of them excluded or removed, and nothing is included by hand.
LetterSymbolsOnly(cf) ==
    /\ cf.include_symbols
    /\ ~cf.include_uppercase /\ ~cf.include_lowercase /\ ~cf.include_numbers
    /\ cf.custom_symbols # <<>>
    /\ SymbolPool(cf) # {}
    /\ SymbolPool(cf) \subseteq Capitals \cup Smalls \cup Digits
    /\ \A c \in SymbolPool(cf) : ~Removed(cf, c)
    /\ cf.include_chars = {}

(***************************************************************************)
(* C27 as stated: for length > 1 the build succeeds whenever a character   *)
(* contributed by an enabled category survives ambiguity removal and       *)
(* exclusion; with only the symbol toggle enabled and custom symbols that  *)
(* are letters or digits, not excluded, it succeeds with those characters  *)
(* as the alphabet.  The code asks for a survivor of the category's own    *)
(* class: letters and digits do not count for the symbol category.         *)
(***************************************************************************)
C27_SucceedsWhenPoolSurvives ==
    (result # "none" /\ Cfg.length > 1) =>
        /\ PoolSurvivors(Cfg) # {} => result = "Ok"
        /\ LetterSymbolsOnly(Cfg) => (result = "Ok" /\ Alphabet = SymbolPool(Cfg))

(***************************************************************************)
(* C27, amended: for length > 1 the build succeeds whenever an enabled     *)
(* category has a survivor of its own class (an uppercase letter for       *)
(* uppercase, a lowercase letter for lowercase, a digit for numbers, a     *)
(* character that is no ASCII letter or digit for symbols); with only the  *)
(* symbol toggle enabled, custom symbols that are letters or digits and    *)
(* an empty include_chars, the build fails.                                *)
(***************************************************************************)
C27_SucceedsWhenClassSurvives ==
    (result # "none" /\ Cfg.length > 1) =>
        /\ CategorySurvives(Cfg) => (result = "Ok" /\ Alphabet = SurvivingSet(Cfg))
        /\ LetterSymbolsOnly(Cfg) => (result = "Err" /\ charset = <<>>)

C27_Witness ==
    /\ result = "Err" /\ Cfg.length = 2 /\ LetterSymbolsOnly(Cfg)
    /\ Cfg.custom_symbols = << <<97, 98>> >> /\ Cfg.exclude_chars = chars(numbers)
    /\ PoolSurvivors(Cfg) = {97, 98}

(***************************************************************************)
(* C28: for a config with length == 1 the usable-category check is         *)
(* skipped: build_character_set never fails and returns Ok with the        *)
(* surviving set (each character once), whatever the toggles,              *)
(* include_chars and exclude_chars are, also when that set is empty.       *)
(***************************************************************************)
C28_LengthOneAlwaysOk ==
    (result # "none" /\ Cfg.length = 1) =>
        /\ result = "Ok"
        /\ Alphabet = SurvivingSet(Cfg)
        /\ Len(charset) = Cardinality(SurvivingSet(Cfg))

C28_Witness ==
    /\ result = "Ok" /\ Cfg.length = 1 /\ charset = <<>>
    /\ AllDisabled(Cfg) /\ Cfg.include_chars = {} /\ ~Cfg.no_ambiguous
    /\ i = 2

\* The generator's state after n draws from state s
RECURSIVE advance(_, _)
advance(s, n) == IF n = 0 THEN s ELSE advance(next_rng(s), n - 1)

\* The run ended in success, after n draws in all.
EndedAfterDraws(n) ==
    /\ Len(passwords) = count
    /\ \A k \in 1..Len(passwords) : Len(passwords[k]) = length
    /\ \E seed \in Seeds : rng = <<advance(seed, n)>>

(***************************************************************************)
(* C29: a run whose length and count are positive terminates (it reaches   *)
(* the end of password_action, without a panic), and a run that ended in   *)
(* success has made exactly length * count draws: `count` calls of         *)
(* generate_password of `length` draws each, every draw advancing the      *)
(* generator once.                                                         *)
(***************************************************************************)
C29_TerminatesAfterLengthTimesCountDraws ==
    /\ [](LengthGiven > 0 /\ CountGiven > 0 => <>(pc = "done"))
    /\ []((pc = "done" /\ stderr = <<>>) => EndedAfterDraws(length * count))

C29_Witness ==
    /\ pc = "done" /\ stderr = <<>> /\ LengthGiven = 2 /\ CountGiven = 2
    /\ \E seed \in Seeds : rng = <<advance(seed, 4)>>
    /\ Len(charset) > 1

=============================================================================
